---- MODULE Spec2Model ----
(***************************************************************************)
(* A model of src/src/lex.c: the line reader (nextline), the classifier    *)
(* (cmdtype), the argument tokenizer/validator and list construction       *)
(* (scan_stream) and the list teardown (free_token_list).                  *)
(*                                                                         *)
(* The input stream is a sequence of characters (one-character strings).   *)
(* nextline is modelled one fgetc at a time; the body of scan_stream's     *)
(* loop for one line is modelled as one step.                              *)
(***************************************************************************)
EXTENDS Integers, Sequences, FiniteSets, TLC

VARIABLES
    stream,     \* the characters of the input file
    pos,        \* FILE: index of the next character fgetc reads from stream
    eofFlag,    \* FILE: the end-of-file indicator (feof)
    unget,      \* FILE: the pushed-back character (<<>> when there is none)
    pc,         \* position of the program
    buf,        \* nextline: r[0..i), the characters accumulated so far
    startPos,   \* history: stream index of the first character stored in buf
    failure,    \* scan_stream: the accumulated failure flag
    errno,      \* the C library's errno
    nodes,      \* heap: the TokenList nodes allocated by new_token_list
    argvs,      \* heap: the argv arrays allocated by scan_stream
    names,      \* heap: the name strings allocated by scan_stream
    r,          \* scan_stream: head of the list (0 is NULL)
    prev,       \* scan_stream: last node appended (0 is NULL)
    diags,      \* what was written to stderr, in order
    linesRead   \* history: the lines nextline returned, in order

vars == <<stream, pos, eofFlag, unget, pc, buf, startPos, failure, errno,
          nodes, argvs, names, r, prev, diags, linesRead>>

----------------------------------------------------------------------------
(* Bounds of the model. *)

\* The number of physical lines of an input stream.
MaxLines == 2

----------------------------------------------------------------------------
(* Characters and words. *)

EOF == "EOF"
NULL == 0

\* isspace() in the C locale, over the characters the model uses.
IsSpace(c) == c \in {" ", "\t", "\n", "\r", "\f"}

\* char *tokdelim = " \t";
tokdelim == {" ", "\t"}

Digits == <<"0", "1", "2", "3", "4", "5", "6", "7", "8", "9">>

IsDigit(c) == \E d \in 1..10 : Digits[d] = c

DigitVal(c) == (CHOOSE d \in 1..10 : Digits[d] = c) - 1

----------------------------------------------------------------------------
(* The conversion tables. *)

\* command[]: key, val
command == <<
    [key |-> <<"p","u","s","h">>,                 val |-> "PUSH"],
    [key |-> <<"p","o","p">>,                     val |-> "POP"],
    [key |-> <<"l","a","b","e","l">>,             val |-> "LABEL"],
    [key |-> <<"g","o","t","o">>,                 val |-> "GOTO"],
    [key |-> <<"i","f","-","g","o","t","o">>,     val |-> "IF"],
    [key |-> <<"f","u","n","c","t","i","o","n">>, val |-> "FUNCTION"],
    [key |-> <<"r","e","t","u","r","n">>,         val |-> "RETURN"],
    [key |-> <<"c","a","l","l">>,                 val |-> "CALL"],
    [key |-> <<"a","d","d">>,                     val |-> "ARITHMETIC"],
    [key |-> <<"s","u","b">>,                     val |-> "ARITHMETIC"],
    [key |-> <<"n","e","g">>,                     val |-> "ARITHMETIC"],
    [key |-> <<"e","q">>,                         val |-> "ARITHMETIC"],
    [key |-> <<"g","t">>,                         val |-> "ARITHMETIC"],
    [key |-> <<"l","t">>,                         val |-> "ARITHMETIC"],
    [key |-> <<"a","n","d">>,                     val |-> "ARITHMETIC"],
    [key |-> <<"o","r">>,                         val |-> "ARITHMETIC"],
    [key |-> <<"n","o","t">>,                     val |-> "ARITHMETIC"] >>

\* memory[]: key, val
memory == <<
    [key |-> <<"a","r","g","u","m","e","n","t">>, val |-> "ARGUMENT"],
    [key |-> <<"l","o","c","a","l">>,             val |-> "LOCAL"],
    [key |-> <<"s","t","a","t","i","c">>,         val |-> "STATIC"],
    [key |-> <<"c","o","n","s","t","a","n","t">>, val |-> "CONSTANT"],
    [key |-> <<"t","h","i","s">>,                 val |-> "THIS"],
    [key |-> <<"t","h","a","t">>,                 val |-> "THAT"],
    [key |-> <<"p","o","i","n","t","e","r">>,     val |-> "POINTER"],
    [key |-> <<"t","e","m","p">>,                 val |-> "TEMP"] >>

\* arithmetic[]: key, val
arithmetic == <<
    [key |-> <<"a","d","d">>, val |-> "ADD"],
    [key |-> <<"s","u","b">>, val |-> "SUB"],
    [key |-> <<"n","e","g">>, val |-> "NEG"],
    [key |-> <<"e","q">>,     val |-> "EQ"],
    [key |-> <<"g","t">>,     val |-> "GT"],
    [key |-> <<"l","t">>,     val |-> "LT"],
    [key |-> <<"a","n","d">>, val |-> "AND"],
    [key |-> <<"o","r">>,     val |-> "OR"],
    [key |-> <<"n","o","t">>, val |-> "NOT"] >>

\* The enumerator of CmdArgType whose value is 0 (lex.h): the value of the
\* slots that cmd_fmt's initialisers leave out.
CmdArgTypeZero == "ARG_NONE"

\* cmd_fmt[]: nargs and arg[3]; slots an initialiser leaves out are zero.
cmd_fmt(cmdt) ==
    CASE cmdt = "NONE"       -> [nargs |-> 0, arg |-> <<CmdArgTypeZero, CmdArgTypeZero, CmdArgTypeZero>>]
      [] cmdt = "ARITHMETIC" -> [nargs |-> 1, arg |-> <<"ARG_CMD", CmdArgTypeZero, CmdArgTypeZero>>]
      [] cmdt = "PUSH"       -> [nargs |-> 3, arg |-> <<"ARG_NONE", "ARG_MEMORY", "ARG_NUM">>]
      [] cmdt = "POP"        -> [nargs |-> 3, arg |-> <<"ARG_NONE", "ARG_MEMORY", "ARG_NUM">>]
      [] cmdt = "LABEL"      -> [nargs |-> 2, arg |-> <<"ARG_NONE", "ARG_NAME", CmdArgTypeZero>>]
      [] cmdt = "GOTO"       -> [nargs |-> 2, arg |-> <<"ARG_NONE", "ARG_NAME", CmdArgTypeZero>>]
      [] cmdt = "IF"         -> [nargs |-> 2, arg |-> <<"ARG_NONE", "ARG_NAME", CmdArgTypeZero>>]
      [] cmdt = "FUNCTION"   -> [nargs |-> 3, arg |-> <<"ARG_NONE", "ARG_NAME", "ARG_NUM">>]
      [] cmdt = "CALL"       -> [nargs |-> 3, arg |-> <<"ARG_NONE", "ARG_NAME", "ARG_NUM">>]
      [] cmdt = "RETURN"     -> [nargs |-> 0, arg |-> <<CmdArgTypeZero, CmdArgTypeZero, CmdArgTypeZero>>]

\* The values of the CommandType enumerators (lex.h): one bit each, NONE is 0,
\* so that `cmdt & (POP | PUSH)` is the test "cmdt is POP or PUSH".
CommandTypeBits(cmdt) ==
    CASE cmdt = "NONE"       -> 0
      [] cmdt = "ARITHMETIC" -> 1
      [] cmdt = "PUSH"       -> 2
      [] cmdt = "POP"        -> 4
      [] cmdt = "LABEL"      -> 8
      [] cmdt = "GOTO"       -> 16
      [] cmdt = "IF"         -> 32
      [] cmdt = "FUNCTION"   -> 64
      [] cmdt = "RETURN"     -> 128
      [] cmdt = "CALL"       -> 256

\* C's bitwise | and & on non-negative ints.
RECURSIVE BitAnd(_, _)
BitAnd(a, b) ==
    IF a = 0 \/ b = 0 THEN 0
    ELSE (IF a % 2 = 1 /\ b % 2 = 1 THEN 1 ELSE 0) + 2 * BitAnd(a \div 2, b \div 2)

RECURSIVE BitOr(_, _)
BitOr(a, b) ==
    IF a = 0 THEN b
    ELSE IF b = 0 THEN a
    ELSE (IF a % 2 = 1 \/ b % 2 = 1 THEN 1 ELSE 0) + 2 * BitOr(a \div 2, b \div 2)

----------------------------------------------------------------------------
(* cmdtype: the last matching entry of command[], NONE when there is none. *)

RECURSIVE cmdtypeFrom(_, _, _)
cmdtypeFrom(cmd, i, acc) ==
    IF i > Len(command) THEN acc
    ELSE cmdtypeFrom(cmd, i + 1, IF cmd = command[i].key THEN command[i].val ELSE acc)

cmdtype(cmd) == cmdtypeFrom(cmd, 1, "NONE")

----------------------------------------------------------------------------
(* The FILE: fgetc, ungetc, feof. A FILE value is [pos, eof, unget]. *)

File == [pos |-> pos, eof |-> eofFlag, unget |-> unget]

\* fgetc(fp): the pushed-back character if there is one, else the next
\* character of the stream, else EOF (which sets the end-of-file indicator).
Fgetc(f) ==
    IF f.unget # <<>>
    THEN [c |-> f.unget[1], f |-> [f EXCEPT !.unget = <<>>]]
    ELSE IF f.pos > Len(stream)
    THEN [c |-> EOF, f |-> [f EXCEPT !.eof = TRUE]]
    ELSE [c |-> stream[f.pos], f |-> [f EXCEPT !.pos = f.pos + 1]]

\* ungetc(c, fp): fails and changes nothing when c is EOF; else pushes c back
\* and clears the end-of-file indicator.
Ungetc(c, f) ==
    IF c = EOF THEN f ELSE [f EXCEPT !.unget = <<c>>, !.eof = FALSE]

----------------------------------------------------------------------------
(* nextline, one fgetc at a time. *)

\* if (feof(fp)) return NULL;
NlEntry ==
    /\ pc = "nl_feof"
    /\ pc' = IF eofFlag THEN "end" ELSE "nl_ws"
    /\ UNCHANGED <<stream, pos, eofFlag, unget, buf, startPos, failure, errno,
                   nodes, argvs, names, r, prev, diags, linesRead>>

\* while (isspace(c = fgetc(fp))) ; ungetc(c, fp);
NlSkipWs ==
    /\ pc = "nl_ws"
    /\ LET g == Fgetc(File)
           f2 == IF IsSpace(g.c) THEN g.f ELSE Ungetc(g.c, g.f)
       IN /\ pos' = f2.pos
          /\ eofFlag' = f2.eof
          /\ unget' = f2.unget
          /\ pc' = IF IsSpace(g.c) THEN "nl_ws" ELSE "nl_read"
    /\ UNCHANGED <<stream, buf, startPos, failure, errno,
                   nodes, argvs, names, r, prev, diags, linesRead>>

\* Mutant of ExitPc: an empty line is returned instead of fetching the next.
ExitPcAlways(b) == "scan"

\* if (r) { r[i] = '\0'; return r; } else return nextline(fp);
ExitPc(b) == IF b # <<>> THEN "scan" ELSE "nl_feof"

\* The history of returned lines: a line is recorded when nextline returns it.
ExitLog(b, start) ==
    IF ExitPc(b) = "scan"
    THEN Append(linesRead, [start |-> start, text |-> b])
    ELSE linesRead

\* One pass of the loop `while ((c = fgetc(fp)) != EOF)`: the newline and
\* end-of-file exits, the test for a comment, and r[i++] = c.
NlRead ==
    /\ pc = "nl_read"
    /\ LET g == Fgetc(File)
           c == g.c
           idx == g.f.pos - 1
           g2 == Fgetc(g.f)
           isSlash == c = "/"
           isComment == isSlash /\ g2.c = "/"
           f3 == IF c = EOF \/ c = "\n" THEN g.f
                 ELSE IF isComment THEN g2.f
                 ELSE IF isSlash THEN Ungetc(g2.c, g2.f)
                 ELSE g.f
       IN /\ pos' = f3.pos
          /\ eofFlag' = f3.eof
          /\ unget' = f3.unget
          /\ IF c = EOF \/ c = "\n"
             THEN /\ pc' = ExitPc(buf)
                  /\ linesRead' = ExitLog(buf, startPos)
                  /\ UNCHANGED <<buf, startPos>>
             ELSE IF isComment
             THEN /\ pc' = "nl_comment"
                  /\ UNCHANGED <<buf, startPos, linesRead>>
             ELSE /\ pc' = "nl_read"
                  /\ buf' = Append(buf, c)
                  /\ startPos' = IF buf = <<>> THEN idx ELSE startPos
                  /\ UNCHANGED linesRead
    /\ UNCHANGED <<stream, failure, errno, nodes, argvs, names, r, prev, diags>>

\* One pass of `while (fgetc(fp) != '\n') ;` and, when it ends, the break
\* out of the reading loop.
NlComment ==
    /\ pc = "nl_comment"
    /\ LET g == Fgetc(File)
       IN /\ pos' = g.f.pos
          /\ eofFlag' = g.f.eof
          /\ unget' = g.f.unget
          /\ IF g.c # "\n"
             THEN /\ pc' = "nl_comment"
                  /\ UNCHANGED linesRead
             ELSE /\ pc' = ExitPc(buf)
                  /\ linesRead' = ExitLog(buf, startPos)
    /\ UNCHANGED <<stream, buf, startPos, failure, errno,
                   nodes, argvs, names, r, prev, diags>>

----------------------------------------------------------------------------
(* strtok(line, " \t") and the following strtok(NULL, " \t") calls: the     *)
(* maximal runs of non-delimiter characters, in order.                     *)

RECURSIVE TokensFrom(_, _, _, _)
TokensFrom(ln, i, cur, acc) ==
    IF i > Len(ln)
    THEN IF cur # <<>> THEN Append(acc, cur) ELSE acc
    ELSE IF ln[i] \in tokdelim
    THEN TokensFrom(ln, i + 1, <<>>, IF cur # <<>> THEN Append(acc, cur) ELSE acc)
    ELSE TokensFrom(ln, i + 1, Append(cur, ln[i]), acc)

Tokens(ln) == TokensFrom(ln, 1, <<>>, <<>>)

\* The k-th call of strtok on a line: its k-th token, or <<>> for a null return.
Strtok(toks, k) == IF k <= Len(toks) THEN toks[k] ELSE <<>>

----------------------------------------------------------------------------
(* strtoll(nword, &end, 10). A long long is kept as sign and decimal        *)
(* digits (most significant first, no leading zeros, <<>> for zero).       *)

\* LLONG_MAX is 9223372036854775807; -LLONG_MIN is 9223372036854775808.
LLongMaxDigits == <<9,2,2,3,3,7,2,0,3,6,8,5,4,7,7,5,8,0,7>>
LLongMinDigits == <<9,2,2,3,3,7,2,0,3,6,8,5,4,7,7,5,8,0,8>>

RECURSIVE SkipSpace(_)
SkipSpace(w) == IF w # <<>> /\ IsSpace(Head(w)) THEN SkipSpace(Tail(w)) ELSE w

RECURSIVE DigitPrefix(_)
DigitPrefix(w) ==
    IF w # <<>> /\ IsDigit(Head(w))
    THEN <<DigitVal(Head(w))>> \o DigitPrefix(Tail(w))
    ELSE <<>>

RECURSIVE StripZeros(_)
StripZeros(d) == IF d # <<>> /\ Head(d) = 0 THEN StripZeros(Tail(d)) ELSE d

RECURSIVE LexGT(_, _)
LexGT(a, b) ==
    IF a = <<>> THEN FALSE
    ELSE IF Head(a) # Head(b) THEN Head(a) > Head(b)
    ELSE LexGT(Tail(a), Tail(b))

\* a > b for two magnitudes
DigsGT(a, b) == Len(a) > Len(b) \/ (Len(a) = Len(b) /\ LexGT(a, b))

\* conv: a conversion was performed (end != nword); erange: the value was out
\* of the range of long long, so the limit is returned and errno is set.
Strtoll(nword) ==
    LET w1 == SkipSpace(nword)
        neg == w1 # <<>> /\ Head(w1) = "-"
        w2 == IF w1 # <<>> /\ Head(w1) \in {"-", "+"} THEN Tail(w1) ELSE w1
        pre == DigitPrefix(w2)
        mag == StripZeros(pre)
        lim == IF neg THEN LLongMinDigits ELSE LLongMaxDigits
    IN IF pre = <<>>
       THEN [conv |-> FALSE, neg |-> FALSE, digs |-> <<>>, erange |-> FALSE]
       ELSE IF DigsGT(mag, lim)
       THEN [conv |-> TRUE, neg |-> neg, digs |-> lim, erange |-> TRUE]
       ELSE [conv |-> TRUE, neg |-> neg, digs |-> mag, erange |-> FALSE]

RECURSIVE DigsToInt(_, _)
DigsToInt(d, acc) == IF d = <<>> THEN acc ELSE DigsToInt(Tail(d), 10 * acc + Head(d))

\* num < 0
NumLT0(num) == num.neg /\ num.digs # <<>>

\* num > k, for a k of at most nine digits
NumGT(num, k) ==
    /\ ~num.neg
    /\ \/ Len(num.digs) > 9
       \/ DigsToInt(num.digs, 0) > k

\* (int) num: the low 32 bits of the value, read as a signed int. The value
\* modulo 2^32 is computed in two 16-bit halves.
RECURSIVE Mod32(_, _, _)
Mod32(d, hi, lo) ==
    IF d = <<>> THEN <<hi, lo>>
    ELSE LET t == lo * 10 + Head(d)
         IN Mod32(Tail(d), (hi * 10 + (t \div 65536)) % 65536, t % 65536)

CastInt(num) ==
    LET u == Mod32(num.digs, 0, 0)
        n == IF ~num.neg \/ (u[1] = 0 /\ u[2] = 0) THEN u
             ELSE <<(65535 - u[1] + (IF u[2] = 0 THEN 1 ELSE 0)) % 65536,
                    (65536 - u[2]) % 65536>>
    IN IF n[1] >= 32768 THEN (n[1] - 65536) * 65536 + n[2]
       ELSE n[1] * 65536 + n[2]

----------------------------------------------------------------------------
(* The argument loop of scan_stream for one line.                          *)
(*                                                                         *)
(* An argv slot is [kind, s, n]: kind names the union member last written  *)
(* ("mem", "num", "name", "op") or is "uninit" for a slot never written;   *)
(* s is the Memory or RType enumerator, n the number or the name pointer.  *)
(* A diagnostic is [line, kind, word]: the number of the logical line, the *)
(* message, and the word the message is about.                             *)

Uninit == [kind |-> "uninit", s |-> "", n |-> 0]

\* What a read of indeterminate memory as a Memory value can compare equal to.
Garbage == {"CONSTANT", "TEMP", "GARBAGE"}

Diag(ln, kind, word) == [line |-> ln, kind |-> kind, word |-> word]

\* The read of slot.mem: the value written, or g when none was.
ReadMem(slot, g) == IF slot.kind = "mem" THEN slot.s ELSE g

\* The lookup of nword in memory[]: the index of the first match, 0 for none.
MemoryIndex(nword) ==
    IF \E j \in 1..Len(memory) : memory[j].key = nword
    THEN CHOOSE j \in 1..Len(memory) :
            /\ memory[j].key = nword
            /\ \A k \in 1..(j - 1) : memory[k].key # nword
    ELSE 0

\* The lookup of cmd in arithmetic[].
ArithmeticIndex(cmd) ==
    IF \E j \in 1..Len(arithmetic) : arithmetic[j].key = cmd
    THEN CHOOSE j \in 1..Len(arithmetic) :
            /\ arithmetic[j].key = cmd
            /\ \A k \in 1..(j - 1) : arithmetic[k].key # cmd
    ELSE 0

\* Mutant of PopOnConstant: the write protection is left out.
PopOnConstantNever(cmdt, mem) == FALSE

\* if (cmdt == POP && argv[argn].mem == CONSTANT)
PopOnConstant(cmdt, mem) == cmdt = "POP" /\ mem = "CONSTANT"

\* if (cmdt & (POP | PUSH))
ChecksLimits(cmdt) ==
    BitAnd(CommandTypeBits(cmdt),
           BitOr(CommandTypeBits("POP"), CommandTypeBits("PUSH"))) # 0

\* Mutant of LimitBroken: the case for TEMP is left out.
LimitBrokenNoTemp(mem, num) ==
    IF NumLT0(num) \/ NumGT(num, 32767) THEN "ConstRange" ELSE ""

\* switch (argv[argn-1].mem): the message of the limit that num breaks, ""
\* when it breaks none.
LimitBroken(mem, num) ==
    IF mem = "TEMP"
    THEN IF NumLT0(num) \/ NumGT(num, 7) THEN "TempRange" ELSE ""
    ELSE IF NumLT0(num) \/ NumGT(num, 32767) THEN "ConstRange" ELSE ""

\* case ARG_MEMORY
ArgMemory(cmdt, nword, argn, st, g, ln) ==
    LET j == MemoryIndex(nword)
        found == j # 0
        slots1 == IF found
                  THEN [st.slots EXCEPT ![argn + 1] =
                            [kind |-> "mem", s |-> memory[j].val, n |-> 0]]
                  ELSE st.slots
        popc == PopOnConstant(cmdt, ReadMem(slots1[argn + 1], g))
        d1 == IF popc THEN Append(st.diags, Diag(ln, "PopConstant", nword))
              ELSE st.diags
        d2 == IF ~found THEN Append(d1, Diag(ln, "InvalidSegment", nword)) ELSE d1
    IN [st EXCEPT !.slots = slots1,
                  !.diags = d2,
                  !.failure = st.failure \/ popc \/ ~found]

\* Mutant of OrAssign: `failure = num_is_invalid` instead of `|=`.
OrAssignPlain(fail, num_is_invalid) == num_is_invalid

\* failure |= num_is_invalid;
OrAssign(fail, num_is_invalid) == fail \/ num_is_invalid

\* case ARG_NUM: strtoll sets errno on overflow and leaves it alone otherwise.
ArgNum(cmdt, nword, argn, st, g, ln) ==
    LET num == Strtoll(nword)
        errno1 == IF num.erange THEN "ERANGE" ELSE st.errno
        bad == errno1 = "ERANGE" \/ ~num.conv
        d1 == IF bad THEN Append(st.diags, Diag(ln, "NumberParse", nword))
              ELSE st.diags
        lim == IF ChecksLimits(cmdt)
               THEN LimitBroken(ReadMem(st.slots[argn], g), num)
               ELSE ""
        d2 == IF lim # "" THEN Append(d1, Diag(ln, lim, nword)) ELSE d1
    IN [st EXCEPT !.slots[argn + 1] = [kind |-> "num", s |-> "", n |-> CastInt(num)],
                  !.errno = errno1,
                  !.diags = d2,
                  !.failure = OrAssign(st.failure \/ bad, lim # "")]

\* case ARG_NAME: a block of strlen(nword) bytes, and the copy of nword. The
\* copy's terminator is written one byte past the size asked for; the names of
\* the model are shorter than the allocator's smallest block, which holds it.
ArgName(nword, argn, st) ==
    LET nm == Append(st.names, [str |-> nword, size |-> Len(nword), frees |-> 0])
    IN [st EXCEPT !.names = nm,
                  !.slots[argn + 1] = [kind |-> "name", s |-> "", n |-> Len(nm)]]

\* for (int i = 1; i < fmt.nargs; ++i, ++argn) { ... }
RECURSIVE ArgLoop(_, _, _, _, _, _, _, _)
ArgLoop(cmdt, fmt, toks, i, argn, st, g, ln) ==
    IF i >= fmt.nargs THEN st
    ELSE LET nword == Strtok(toks, i + 1)
             kind == fmt.arg[i + 1]
             st1 == IF nword = <<>>
                    THEN [st EXCEPT !.diags = Append(st.diags, Diag(ln, "MissingToken", <<>>)),
                                    !.failure = TRUE]
                    ELSE IF kind = "ARG_MEMORY" THEN ArgMemory(cmdt, nword, argn, st, g, ln)
                    ELSE IF kind = "ARG_NUM" THEN ArgNum(cmdt, nword, argn, st, g, ln)
                    ELSE IF kind = "ARG_NAME" THEN ArgName(nword, argn, st)
                    ELSE st
         IN ArgLoop(cmdt, fmt, toks, i + 1, argn + 1, st1, g, ln)

\* The first slot: argn, argc and, for ARG_CMD, argv[0].op.
FirstSlot(cmd, fmt) ==
    IF fmt.arg[1] = "ARG_NONE"
    THEN [argn |-> 0, argc |-> fmt.nargs - 1,
          slots |-> [k \in 1..(fmt.nargs - 1) |-> Uninit]]
    ELSE LET j == ArithmeticIndex(cmd)
             blank == [k \in 1..fmt.nargs |-> Uninit]
         IN [argn |-> 1, argc |-> fmt.nargs,
             slots |-> IF fmt.arg[1] = "ARG_CMD" /\ j # 0
                       THEN [blank EXCEPT ![1] =
                                [kind |-> "op", s |-> arithmetic[j].val, n |-> 0]]
                       ELSE blank]

\* Mutant of AppendNode: the new node is linked in at the head.
AppendNodeAtHead(h, cmdt, argc, argv, ln) ==
    LET n1 == Append(h.nodes, [cmd |-> cmdt, argc |-> argc, argv |-> argv,
                               next |-> h.r, frees |-> 0, line |-> ln])
    IN [nodes |-> n1, prev |-> Len(n1), r |-> Len(n1)]

\* new_token_list() and the linking of the new node at the tail:
\* curr->cmd, argc, argv; if (prev) prev->next = curr; prev = curr;
\* if (!r) r = prev. h is [nodes, r, prev].
AppendNode(h, cmdt, argc, argv, ln) ==
    LET n1 == Append(h.nodes, [cmd |-> cmdt, argc |-> argc, argv |-> argv,
                               next |-> NULL, frees |-> 0, line |-> ln])
        curr == Len(n1)
        n2 == IF h.prev # NULL THEN [n1 EXCEPT ![h.prev].next = curr] ELSE n1
    IN [nodes |-> n2, prev |-> curr, r |-> IF h.r = NULL THEN curr ELSE h.r]

\* The number of the line being scanned: the lines nextline returned so far.
LineNo == Len(linesRead)

\* Mutant of ScanUnknown: an unknown command also records a failure.
ScanUnknownFatal ==
    /\ pc = "scan"
    /\ LET toks == Tokens(buf)
           cmd == Strtok(toks, 1)
       IN /\ cmd # <<>>
          /\ cmdtype(cmd) = "NONE"
          /\ diags' = Append(diags, Diag(LineNo, "UnknownCommand", cmd))
    /\ failure' = TRUE
    /\ buf' = <<>>
    /\ pc' = "nl_feof"
    /\ UNCHANGED <<stream, pos, eofFlag, unget, startPos, errno,
                   nodes, argvs, names, r, prev, linesRead>>

\* An unknown command: the message, and `continue`. strtok returns a token
\* for every line nextline returns (a null cmd would reach strcmp).
ScanUnknown ==
    /\ pc = "scan"
    /\ LET toks == Tokens(buf)
           cmd == Strtok(toks, 1)
       IN /\ cmd # <<>>
          /\ cmdtype(cmd) = "NONE"
          /\ diags' = Append(diags, Diag(LineNo, "UnknownCommand", cmd))
    /\ buf' = <<>>
    /\ pc' = "nl_feof"
    /\ UNCHANGED <<stream, pos, eofFlag, unget, startPos, failure, errno,
                   nodes, argvs, names, r, prev, linesRead>>

\* A known command: the argv array, the argument loop and, when no failure
\* is recorded, the append; then the next line. malloc of a negative count of
\* slots (a size near SIZE_MAX) returns NULL.
ScanKnown ==
    /\ pc = "scan"
    /\ \E g \in Garbage :
        LET toks == Tokens(buf)
            cmd == Strtok(toks, 1)
            cmdt == cmdtype(cmd)
            fmt == cmd_fmt(cmdt)
            fs == FirstSlot(cmd, fmt)
            st0 == [slots |-> fs.slots, failure |-> failure, errno |-> errno,
                    diags |-> diags, names |-> names]
            st == ArgLoop(cmdt, fmt, toks, 1, fs.argn, st0, g, LineNo)
            argvs1 == IF fs.argc >= 0
                      THEN Append(argvs, [slots |-> st.slots, frees |-> 0])
                      ELSE argvs
            argv == IF fs.argc >= 0 THEN Len(argvs1) ELSE NULL
            h == IF ~st.failure
                 THEN AppendNode([nodes |-> nodes, r |-> r, prev |-> prev],
                                 cmdt, fs.argc, argv, LineNo)
                 ELSE [nodes |-> nodes, r |-> r, prev |-> prev]
        IN /\ cmd # <<>>
           /\ cmdt # "NONE"
           /\ failure' = st.failure
           /\ errno' = st.errno
           /\ diags' = st.diags
           /\ names' = st.names
           /\ argvs' = argvs1
           /\ nodes' = h.nodes
           /\ r' = h.r
           /\ prev' = h.prev
    /\ buf' = <<>>
    /\ pc' = "nl_feof"
    /\ UNCHANGED <<stream, pos, eofFlag, unget, startPos, linesRead>>

\* After the loop: exit(1) when a failure was recorded, else return r.
ScanEnd ==
    /\ pc = "end"
    /\ IF failure
       THEN /\ diags' = Append(diags, Diag(0, "FailedToCompile", <<>>))
            /\ pc' = "exit1"
       ELSE /\ pc' = "returned"
            /\ UNCHANGED diags
    /\ UNCHANGED <<stream, pos, eofFlag, unget, buf, startPos, failure, errno,
                   nodes, argvs, names, r, prev, linesRead>>

----------------------------------------------------------------------------
(* free_token_list(tl), on the list scan_stream returned. h is [nodes,     *)
(* argvs]; free(NULL) does nothing.                                        *)

RECURSIVE free_token_list(_, _)
free_token_list(tl, h) ==
    IF tl = NULL THEN h
    ELSE LET n == h.nodes[tl].next
             a == h.nodes[tl].argv
             av == IF a # NULL
                   THEN [h.argvs EXCEPT ![a].frees = h.argvs[a].frees + 1]
                   ELSE h.argvs
             nd == [h.nodes EXCEPT ![tl].frees = h.nodes[tl].frees + 1]
             h1 == [nodes |-> nd, argvs |-> av]
         IN IF n # NULL THEN free_token_list(n, h1) ELSE h1

FreeTokenList ==
    /\ pc = "returned"
    /\ LET h == free_token_list(r, [nodes |-> nodes, argvs |-> argvs])
       IN /\ nodes' = h.nodes
          /\ argvs' = h.argvs
    /\ pc' = "freed"
    /\ UNCHANGED <<stream, pos, eofFlag, unget, buf, startPos, failure, errno,
                   names, r, prev, diags, linesRead>>

----------------------------------------------------------------------------
(* The input streams of the model: up to MaxLines physical lines, each one *)
(* of a fixed set of lines and ended by a newline.                         *)

\* A statement of every command kind, an unknown command, a statement with a
\* missing argument, and a comment.
KindLines == {
    \* push local 1
    <<"p","u","s","h"," ","l","o","c","a","l"," ","1","\n">>,
    \* pop local 1
    <<"p","o","p"," ","l","o","c","a","l"," ","1","\n">>,
    \* label L
    <<"l","a","b","e","l"," ","L","\n">>,
    \* goto L
    <<"g","o","t","o"," ","L","\n">>,
    \* if-goto L
    <<"i","f","-","g","o","t","o"," ","L","\n">>,
    \* function f 2
    <<"f","u","n","c","t","i","o","n"," ","f"," ","2","\n">>,
    \* call f 2
    <<"c","a","l","l"," ","f"," ","2","\n">>,
    \* return
    <<"r","e","t","u","r","n","\n">>,
    \* add
    <<"a","d","d","\n">>,
    \* not
    <<"n","o","t","\n">>,
    \* foo
    <<"f","o","o","\n">>,
    \* pop
    <<"p","o","p","\n">>,
    \* // c
    <<"/","/"," ","c","\n">> }

\* push and pop statements with valid, invalid and missing arguments, a call,
\* an unknown command and a statement followed by a comment.
ArgLines == {
    \* push constant 32767
    <<"p","u","s","h"," ","c","o","n","s","t","a","n","t"," ","3","2","7","6","7","\n">>,
    \* push constant 32768
    <<"p","u","s","h"," ","c","o","n","s","t","a","n","t"," ","3","2","7","6","8","\n">>,
    \* pop temp 7
    <<"p","o","p"," ","t","e","m","p"," ","7","\n">>,
    \* pop temp 8
    <<"p","o","p"," ","t","e","m","p"," ","8","\n">>,
    \* pop constant 5
    <<"p","o","p"," ","c","o","n","s","t","a","n","t"," ","5","\n">>,
    \* pop constant
    <<"p","o","p"," ","c","o","n","s","t","a","n","t","\n">>,
    \* pop constant 40000
    <<"p","o","p"," ","c","o","n","s","t","a","n","t"," ","4","0","0","0","0","\n">>,
    \* pop constant x
    <<"p","o","p"," ","c","o","n","s","t","a","n","t"," ","x","\n">>,
    \* pop foo 5
    <<"p","o","p"," ","f","o","o"," ","5","\n">>,
    \* push constant 9999999999999999999
    <<"p","u","s","h"," ","c","o","n","s","t","a","n","t"," ","9","9","9","9","9","9","9","9","9","9","9","9","9","9","9","9","9","9","9","\n">>,
    \* push local -1
    <<"p","u","s","h"," ","l","o","c","a","l"," ","-","1","\n">>,
    \* foo
    <<"f","o","o","\n">>,
    \* push foo 9
    <<"p","u","s","h"," ","f","o","o"," ","9","\n">>,
    \* call f 70000
    <<"c","a","l","l"," ","f"," ","7","0","0","0","0","\n">>,
    \* add // c
    <<"a","d","d"," ","/","/"," ","c","\n">> }

\* Blank lines, comments, leading whitespace, and a few statements.
ReaderLines == {
    \* (blank)
    <<"\n">>,
    \*  <TAB>
    <<" ","\t","\n">>,
    \* // c
    <<"/","/"," ","c","\n">>,
    \*  // c
    <<" ","/","/"," ","c","\n">>,
    \* add
    <<"a","d","d","\n">>,
    \*  add
    <<" ","a","d","d","\n">>,
    \* add // c
    <<"a","d","d"," ","/","/"," ","c","\n">>,
    \* a/b
    <<"a","/","b","\n">>,
    \* pop
    <<"p","o","p","\n">>,
    \* label L
    <<"l","a","b","e","l"," ","L","\n">> }

RECURSIVE StreamsOfLen(_, _)
StreamsOfLen(S, n) ==
    IF n = 0 THEN {<<>>}
    ELSE {a \o b : a \in S, b \in StreamsOfLen(S, n - 1)}

Streams(S) == UNION {StreamsOfLen(S, n) : n \in 0..MaxLines}

\* The stream without its last character (its final newline).
Chop(t) == IF t = <<>> THEN t ELSE SubSeq(t, 1, Len(t) - 1)

\* The state at the entry of scan_stream on a freshly opened stream.
InitOn(inputs) ==
    /\ stream \in inputs
    /\ pos = 1
    /\ eofFlag = FALSE
    /\ unget = <<>>
    /\ pc = "nl_feof"
    /\ buf = <<>>
    /\ startPos = 0
    /\ failure = FALSE
    /\ errno = "0"
    /\ nodes = <<>>
    /\ argvs = <<>>
    /\ names = <<>>
    /\ r = NULL
    /\ prev = NULL
    /\ diags = <<>>
    /\ linesRead = <<>>

Init == InitOn(Streams(KindLines))

InitArgs == InitOn(Streams(ArgLines))

\* Streams of the reader's lines, with and without the final newline.
InitReader == InitOn(Streams(ReaderLines) \cup {Chop(t) : t \in Streams(ReaderLines)})

Next ==
    \/ NlEntry
    \/ NlSkipWs
    \/ NlRead
    \/ NlComment
    \/ ScanUnknown
    \/ ScanKnown
    \/ ScanEnd
    \/ FreeTokenList

Spec == Init /\ [][Next]_vars

SpecArgs == InitArgs /\ [][Next]_vars

\* The program is sequential: it always takes its next step.
SpecReader == InitReader /\ [][Next]_vars /\ WF_vars(Next)

----------------------------------------------------------------------------
(* Vocabulary of the properties. *)

\* The nodes of the list from tl on, in the order of the next links.
RECURSIVE WalkIn(_, _, _)
WalkIn(nd, tl, fuel) ==
    IF tl = NULL \/ fuel = 0 THEN <<>>
    ELSE <<tl>> \o WalkIn(nd, nd[tl].next, fuel - 1)

List == WalkIn(nodes, r, Len(nodes))

\* Line k was returned by nextline and the scan of it is over.
Scanned(k) == k \in 1..Len(linesRead) /\ (k < Len(linesRead) \/ pc # "scan")

LineToks(k) == Tokens(linesRead[k].text)

DiagsOf(k) == {i \in 1..Len(diags) : diags[i].line = k}

DiagKinds == {diags[i].kind : i \in 1..Len(diags)}

\* MissingArgument, InvalidSegment, WriteToConstant, NumberParseError and
\* NumberOutOfRange, as the messages of scan_stream.
FatalKinds == {"MissingToken", "InvalidSegment", "PopConstant", "NumberParse",
               "TempRange", "ConstRange"}

Finished == pc \in {"exit1", "returned", "freed"}

W_push == <<"p","u","s","h">>
W_pop == <<"p","o","p">>
W_constant == <<"c","o","n","s","t","a","n","t">>
W_temp == <<"t","e","m","p">>
W_32767 == <<"3","2","7","6","7">>
W_32768 == <<"3","2","7","6","8">>
W_7 == <<"7">>
W_8 == <<"8">>

----------------------------------------------------------------------------
\* C1: All-or-nothing verdict. The failure flag is set exactly when a line has
\* produced a missing-argument, invalid-segment, write-to-constant,
\* number-parse or number-out-of-range message; once the stream is consumed
\* the scan exits with status 1 when it is set and is never in the state of
\* having returned the list, and returns the list when it is not set.
C1_AllOrNothing ==
    /\ failure <=> (DiagKinds \cap FatalKinds # {})
    /\ pc = "exit1" => DiagKinds \cap FatalKinds # {}
    /\ pc \in {"returned", "freed"} => DiagKinds \cap FatalKinds = {}

\* A list of one node had been built when a later line failed: the scan exits.
C1_Witness ==
    /\ pc = "exit1"
    /\ Len(nodes) = 1
    /\ "ConstRange" \in DiagKinds

----------------------------------------------------------------------------
\* C2: Source order. When scan_stream has returned, the list walked from its
\* head holds exactly one node per recognized line, in the order of the lines,
\* with that line's command kind; and a step never changes the command, the
\* argument count, the argument array or the arguments of a node appended
\* earlier, nor the order of the nodes already in the list.
RecognizedLines ==
    LET S == {k \in 1..Len(linesRead) : cmdtype(Strtok(LineToks(k), 1)) # "NONE"}
        RECURSIVE Sorted(_, _)
        Sorted(k, acc) ==
            IF k > Len(linesRead) THEN acc
            ELSE Sorted(k + 1, IF k \in S THEN Append(acc, k) ELSE acc)
    IN Sorted(1, <<>>)

C2_Order ==
    pc = "returned" =>
        /\ Len(List) = Len(RecognizedLines)
        /\ \A i \in 1..Len(List) :
              /\ nodes[List[i]].line = RecognizedLines[i]
              /\ nodes[List[i]].cmd = cmdtype(Strtok(LineToks(RecognizedLines[i]), 1))

C2_Frozen ==
    /\ Len(nodes') >= Len(nodes)
    /\ \A i \in 1..Len(nodes) :
          /\ nodes'[i].cmd = nodes[i].cmd
          /\ nodes'[i].argc = nodes[i].argc
          /\ nodes'[i].argv = nodes[i].argv
          /\ nodes'[i].line = nodes[i].line
          /\ nodes[i].argv # NULL =>
                argvs'[nodes[i].argv].slots = argvs[nodes[i].argv].slots
    /\ LET old == List
           new == WalkIn(nodes', r', Len(nodes'))
       IN /\ Len(new) >= Len(old)
          /\ SubSeq(new, 1, Len(old)) = old

\* C2_Order is evaluated in the state a step leaves; the state in which
\* scan_stream has returned is left by the step that tears the list down.
C2_SourceOrder == [][C2_Frozen /\ C2_Order]_vars

\* A list of two nodes of different kinds was returned.
C2_Witness ==
    /\ pc = "returned"
    /\ Len(List) = 2
    /\ nodes[List[1]].cmd # nodes[List[2]].cmd

----------------------------------------------------------------------------
\* C3: Shape. Every node has the argument count and the per-slot kinds of its
\* command kind: (Segment, Number) for push and pop, (Name, Number) for
\* function and call, (Name) for label, goto and if-goto, (Operation) for
\* arithmetic, and none for return.
ShapeOf(cmdt) ==
    CASE cmdt \in {"PUSH", "POP"}          -> <<"mem", "num">>
      [] cmdt \in {"FUNCTION", "CALL"}     -> <<"name", "num">>
      [] cmdt \in {"LABEL", "GOTO", "IF"}  -> <<"name">>
      [] cmdt = "ARITHMETIC"               -> <<"op">>
      [] OTHER                             -> <<>>

SlotsOf(n) == IF nodes[n].argv = NULL THEN <<>> ELSE argvs[nodes[n].argv].slots

C3_Shape ==
    \A n \in 1..Len(nodes) :
        /\ nodes[n].argc = Len(ShapeOf(nodes[n].cmd))
        /\ Len(SlotsOf(n)) = Len(ShapeOf(nodes[n].cmd))
        /\ \A i \in 1..Len(SlotsOf(n)) : SlotsOf(n)[i].kind = ShapeOf(nodes[n].cmd)[i]

----------------------------------------------------------------------------
\* C4: Segment-dependent range. A push or pop node holds a number in [0,7]
\* when its segment is temp and in [0,32767] otherwise; a range message is
\* only written with the failure flag set; `push constant 32768` and
\* `pop temp 8` write a range message and give no node; `push constant 32767`
\* and `pop temp 7` write no range message and, in a scan with no failure,
\* give a node holding the number.
IsLine(k, w1, w2, w3) == LineToks(k) = <<w1, w2, w3>>

RangeDiag(k) == \E i \in DiagsOf(k) : diags[i].kind \in {"TempRange", "ConstRange"}

NodeOf(k, num) ==
    \E n \in 1..Len(nodes) :
        /\ nodes[n].line = k
        /\ SlotsOf(n)[2].kind = "num"
        /\ SlotsOf(n)[2].n = num

C4_Range ==
    /\ \A n \in 1..Len(nodes) :
          nodes[n].cmd \in {"PUSH", "POP"} =>
              /\ SlotsOf(n)[1].kind = "mem"
              /\ SlotsOf(n)[2].kind = "num"
              /\ SlotsOf(n)[2].n >= 0
              /\ SlotsOf(n)[2].n <= (IF SlotsOf(n)[1].s = "TEMP" THEN 7 ELSE 32767)
    /\ (DiagKinds \cap {"TempRange", "ConstRange"} # {}) => failure
    /\ \A k \in 1..Len(linesRead) :
          Scanned(k) =>
              /\ (IsLine(k, W_push, W_constant, W_32768) \/ IsLine(k, W_pop, W_temp, W_8)) =>
                    /\ RangeDiag(k)
                    /\ \A n \in 1..Len(nodes) : nodes[n].line # k
              /\ IsLine(k, W_push, W_constant, W_32767) =>
                    /\ ~RangeDiag(k)
                    /\ ~failure => NodeOf(k, 32767)
              /\ IsLine(k, W_pop, W_temp, W_7) =>
                    /\ ~RangeDiag(k)
                    /\ ~failure => NodeOf(k, 7)

\* `push constant 32767` and `pop temp 7` were both accepted and returned.
C4_Witness ==
    /\ pc = "returned"
    /\ \E k \in 1..Len(linesRead) : IsLine(k, W_push, W_constant, W_32767) /\ NodeOf(k, 32767)
    /\ \E k \in 1..Len(linesRead) : IsLine(k, W_pop, W_temp, W_7) /\ NodeOf(k, 7)

----------------------------------------------------------------------------
\* C5: Constant is write-protected. A scanned pop line whose segment word is
\* `constant` has written the write-to-constant message and set the failure
\* flag, whatever follows the segment word; no pop node has the constant
\* segment; a push line writes no write-to-constant message.
PopConstantDiag(k) == \E i \in DiagsOf(k) : diags[i].kind = "PopConstant"

C5_WriteProtected ==
    /\ \A k \in 1..Len(linesRead) :
          Scanned(k) =>
              /\ (Len(LineToks(k)) >= 2 /\ LineToks(k)[1] = W_pop /\ LineToks(k)[2] = W_constant) =>
                    PopConstantDiag(k) /\ failure
              /\ LineToks(k)[1] = W_push => ~PopConstantDiag(k)
    /\ \A n \in 1..Len(nodes) :
          ~(nodes[n].cmd = "POP" /\ SlotsOf(n)[1].kind = "mem" /\ SlotsOf(n)[1].s = "CONSTANT")

\* `pop constant` with the number missing was scanned, and so was
\* `pop constant 5`.
C5_Witness ==
    /\ Finished
    /\ \E k \in 1..Len(linesRead) : LineToks(k) = <<W_pop, W_constant>> /\ PopConstantDiag(k)
    /\ \E k \in 1..Len(linesRead) : IsLine(k, W_pop, W_constant, <<"5">>) /\ PopConstantDiag(k)

----------------------------------------------------------------------------
\* C6: An unknown command is not fatal. The scan of a line whose first word
\* is in no entry of the command table appends no node, writes exactly one
\* message, the unknown-command message, leaves the failure flag as it was
\* and goes on to the next line; and the scan exits with status 1 only after
\* a message other than the unknown-command message.
UnknownLine == pc = "scan" /\ cmdtype(Strtok(Tokens(buf), 1)) = "NONE"

C6_Step ==
    /\ UnknownLine =>
          /\ nodes' = nodes
          /\ r' = r
          /\ failure' = failure
          /\ diags' = Append(diags, Diag(LineNo, "UnknownCommand", Strtok(Tokens(buf), 1)))
          /\ pc' = "nl_feof"
    /\ pc' = "exit1" => DiagKinds \ {"UnknownCommand"} # {}

C6_UnknownNotFatal == [][C6_Step]_vars

\* An input with an unknown command was scanned and a list of its other
\* lines returned.
C6_Witness ==
    /\ pc = "returned"
    /\ "UnknownCommand" \in DiagKinds
    /\ Len(List) = 1

----------------------------------------------------------------------------
\* C7: Blank and comment-only lines are transparent. The line handed to the
\* classifier is never empty and starts with a word; every line nextline
\* returns starts on a physical line that is neither blank nor comment-only,
\* each on a later physical line than the one before; every message and node
\* belongs to a line nextline returned; and once the stream is consumed the
\* lines returned are exactly the physical lines that are neither blank nor
\* comment-only, wherever the others stand.
PhysIndex(p) == 1 + Cardinality({i \in 1..(p - 1) : stream[i] = "\n"})

NumPhys == PhysIndex(Len(stream) + 1)

PhysLine(j) ==
    LET idx == {i \in 1..Len(stream) : stream[i] # "\n" /\ PhysIndex(i) = j}
        first == CHOOSE i \in idx : \A m \in idx : i <= m
    IN IF idx = {} THEN <<>>
       ELSE [k \in 1..Cardinality(idx) |-> stream[first + k - 1]]

BlankOrComment(j) ==
    LET t == SkipSpace(PhysLine(j))
    IN t = <<>> \/ (Len(t) >= 2 /\ t[1] = "/" /\ t[2] = "/")

----------------------------------------------------------------------------
\* C8: Complete teardown. After free_token_list on the returned list, every
\* node of the list, every argument array and every name string of a node has
\* been freed exactly once.
C8_Teardown ==
    pc = "freed" =>
        \A n \in 1..Len(nodes) :
            /\ nodes[n].frees = 1
            /\ nodes[n].argv # NULL => argvs[nodes[n].argv].frees = 1
            /\ \A i \in 1..Len(SlotsOf(n)) :
                  SlotsOf(n)[i].kind = "name" => names[SlotsOf(n)[i].n].frees = 1

----------------------------------------------------------------------------
\* C9: Scanning terminates. Every scan of a finite stream ends: scan_stream
\* returns or exits.
C9_Terminates == <>Finished

----------------------------------------------------------------------------
\* C10: Diagnostics are exact. No message is written twice; the
\* write-to-constant message is written only for a line whose segment word is
\* `constant`; the number-parse message is written only for a number word that
\* is not a well-formed number in the range of long long.
WellFormed(word) ==
    /\ word # <<>>
    /\ Len(word) <= 18
    /\ \A i \in 1..Len(word) : IsDigit(word[i])

C10_DiagsExact ==
    /\ \A i, j \in 1..Len(diags) : i # j => diags[i] # diags[j]
    /\ \A i \in 1..Len(diags) :
          /\ diags[i].kind = "PopConstant" =>
                /\ Len(LineToks(diags[i].line)) >= 2
                /\ LineToks(diags[i].line)[2] = W_constant
          /\ diags[i].kind = "NumberParse" => ~WellFormed(diags[i].word)

====
